---- MODULE Spec2Model ----
(***************************************************************************)
(* Model of the `rename` command of pyrgear                                *)
(* (internal/comands/rename.go): the driver RenameCmd.Run and the engines  *)
(* processDirectory, processDirectoryWithRule, processFoldernameRename and *)
(* processWxExporter, run against a modelled filesystem.                   *)
(*                                                                         *)
(* Go strings (file names, paths, flag values) are sequences of byte       *)
(* values, so that strings.ToLower, filepath.Ext, filepath.Base,           *)
(* filepath.Join and fmt.Sprintf are computed, not assumed.                *)
(***************************************************************************)
EXTENDS Integers, Sequences, FiniteSets, TLC

(***************************************************************************)
(* String literals of the program                                          *)
(***************************************************************************)
sEmpty == << >>
sSlash == <<47>>
sDot == <<46>>
sDotDot == <<46, 46>>
sUnderscore == <<95>>
sTimestamp == <<116,105,109,101,115,116,97,109,112>>
sSequence == <<115,101,113,117,101,110,99,101>>
sLowercase == <<108,111,119,101,114,99,97,115,101>>
sWxExporter == <<119,120,45,101,120,112,111,114,116,101,114>>
sFoldernameRename == <<102,111,108,100,101,114,110,97,109,101,45,114,101,110,97,109,101>>
sAssets == <<97,115,115,101,116,115>>
sFilePrefix == <<102,105,108,101,95>>
\* ImageExts with ".txt" taken for an image
ImageExtsAndText == { <<46,106,112,103>>, <<46,106,112,101,103>>, <<46,112,110,103>>,
                      <<46,103,105,102>>, <<46,119,101,98,112>>, <<46,116,120,116>> }

ImageExts == { <<46,106,112,103>>, <<46,106,112,101,103>>, <<46,112,110,103>>,
               <<46,103,105,102>>, <<46,119,101,98,112>> }

(***************************************************************************)
(* strings, fmt                                                            *)
(***************************************************************************)
ToLower(s) == [i \in 1..Len(s) |-> IF s[i] \in 65..90 THEN s[i] + 32 ELSE s[i]]

RECURSIVE Itoa(_)
Itoa(n) == IF n < 10 THEN <<48 + n>> ELSE Itoa(n \div 10) \o <<48 + (n % 10)>>

RECURSIVE ZeroPad(_, _)
ZeroPad(s, w) == IF Len(s) >= w THEN s ELSE ZeroPad(<<48>> \o s, w)

\* fmt.Sprintf("%0<w>d", n) for n >= 0
SprintfD(n, w) == ZeroPad(Itoa(n), w)

HasPrefix(s, p) == Len(s) >= Len(p) /\ SubSeq(s, 1, Len(p)) = p

\* byte-wise order of two strings (the order os.ReadDir sorts names by)
LexLess(a, b) ==
    \E i \in 1..Len(b) :
        /\ \A j \in 1..(i - 1) : j <= Len(a) /\ a[j] = b[j]
        /\ (i > Len(a) \/ a[i] < b[i])

(***************************************************************************)
(* path/filepath                                                           *)
(***************************************************************************)
RECURSIVE SplitFrom(_, _, _)
SplitFrom(s, i, cur) ==
    IF i > Len(s) THEN <<cur>>
    ELSE IF s[i] = 47 THEN <<cur>> \o SplitFrom(s, i + 1, << >>)
    ELSE SplitFrom(s, i + 1, Append(cur, s[i]))

RECURSIVE CleanComps(_, _, _)
CleanComps(comps, acc, rooted) ==
    IF comps = << >> THEN acc
    ELSE IF Head(comps) = sEmpty \/ Head(comps) = sDot
         THEN CleanComps(Tail(comps), acc, rooted)
    ELSE IF Head(comps) = sDotDot
         THEN IF acc # << >> /\ acc[Len(acc)] # sDotDot
              THEN CleanComps(Tail(comps), SubSeq(acc, 1, Len(acc) - 1), rooted)
              ELSE IF rooted THEN CleanComps(Tail(comps), acc, rooted)
              ELSE CleanComps(Tail(comps), Append(acc, Head(comps)), rooted)
    ELSE CleanComps(Tail(comps), Append(acc, Head(comps)), rooted)

RECURSIVE JoinComps(_)
JoinComps(comps) ==
    IF comps = << >> THEN sEmpty
    ELSE IF Len(comps) = 1 THEN comps[1]
    ELSE comps[1] \o sSlash \o JoinComps(Tail(comps))

CleanResult(rooted, body) ==
    IF rooted THEN sSlash \o body
    ELSE IF body = sEmpty THEN sDot ELSE body

\* filepath.Clean
Clean(path) ==
    IF path = sEmpty THEN sDot
    ELSE CleanResult(path[1] = 47,
                     JoinComps(CleanComps(SplitFrom(path, 1, << >>), << >>, path[1] = 47)))

\* filepath.Join of two elements
Join(a, b) ==
    IF a # sEmpty THEN Clean(a \o sSlash \o b)
    ELSE IF b # sEmpty THEN Clean(b)
    ELSE sEmpty

RECURSIVE TrimSlashes(_)
TrimSlashes(s) ==
    IF Len(s) > 0 /\ s[Len(s)] = 47 THEN TrimSlashes(SubSeq(s, 1, Len(s) - 1)) ELSE s

MaxOrZero(S) == IF S = {} THEN 0 ELSE CHOOSE i \in S : \A j \in S : j <= i

LastIndex(s, ch) == MaxOrZero({i \in 1..Len(s) : s[i] = ch})

SuffixFrom(s, i) == SubSeq(s, i, Len(s))

OrSlash(e) == IF e = sEmpty THEN sSlash ELSE e

BaseTrimmed(t) == OrSlash(SuffixFrom(t, LastIndex(t, 47) + 1))

\* filepath.Base
Base(path) == IF path = sEmpty THEN sDot ELSE BaseTrimmed(TrimSlashes(path))

ExtAt(path, sl, dot) == IF dot > sl THEN SuffixFrom(path, dot) ELSE sEmpty

\* filepath.Ext: the suffix beginning at the final dot of the final element
Ext(path) == ExtAt(path, LastIndex(path, 47), LastIndex(path, 46))

(***************************************************************************)
(* The filesystem: a function from absolute clean paths to nodes.          *)
(* perm of a directory: "rwx" (list, search, modify), "r-x" (list and      *)
(* search only) or "---" (neither listed nor searched).                    *)
(***************************************************************************)
sRoot == sSlash
sCwd == <<47, 119>>                       \* "/w", the process's working directory

TimeNow == [year |-> 2025, month |-> 6, day |-> 7, hour |-> 8, min |-> 9, sec |-> 10]

DirNode(perm) == [kind |-> "dir", perm |-> perm, data |-> "", mtime |-> TimeNow]
FileNode(data, mtime) == [kind |-> "file", perm |-> "rw-", data |-> data, mtime |-> mtime]

\* the absolute path the kernel resolves a program path to
Resolve(path) ==
    IF path = sEmpty THEN sEmpty
    ELSE IF path[1] = 47 THEN Clean(path)
    ELSE Join(sCwd, path)

ParentAt(p, i) == IF i <= 1 THEN sRoot ELSE SubSeq(p, 1, i - 1)

\* parent directory of an absolute clean path
ParentOf(p) == ParentAt(p, LastIndex(p, 47))

Ancestors(p) ==
    IF Len(p) <= 1 THEN {}
    ELSE {sRoot} \cup {SubSeq(p, 1, i - 1) : i \in {j \in 2..Len(p) : p[j] = 47}}

Searchable(f, p) ==
    \A a \in Ancestors(p) : a \in DOMAIN f /\ f[a].kind = "dir" /\ f[a].perm # "---"

Exists(f, p) == p \in DOMAIN f /\ Searchable(f, p)

StatAbs(f, p) ==
    IF Exists(f, p) THEN [ok |-> TRUE, isDir |-> f[p].kind = "dir", modTime |-> f[p].mtime]
    ELSE [ok |-> FALSE, isDir |-> FALSE, modTime |-> TimeNow]

\* os.Stat
Stat(f, path) == StatAbs(f, Resolve(path))

MinName(S) == CHOOSE x \in S : \A y \in S \ {x} : LexLess(x, y)

RECURSIVE SortNames(_)
SortFrom(m, S) == <<m>> \o SortNames(S \ {m})
SortNames(S) == IF S = {} THEN << >> ELSE SortFrom(MinName(S), S)

EntriesOf(f, p, names) ==
    [i \in 1..Len(names) |->
        [name |-> names[i], isDir |-> f[Join(p, names[i])].kind = "dir"]]

ReadDirAbs(f, p) ==
    IF Exists(f, p) /\ f[p].kind = "dir" /\ f[p].perm # "---"
    THEN [ok |-> TRUE,
          entries |-> EntriesOf(f, p, SortNames({Base(q) : q \in
                                   {r \in DOMAIN f : r # p /\ ParentOf(r) = p}}))]
    ELSE [ok |-> FALSE, entries |-> << >>]

\* os.ReadDir: the entries of a directory, sorted by file name
ReadDir(f, path) == ReadDirAbs(f, Resolve(path))

Writable(f, d) == d \in DOMAIN f /\ f[d].kind = "dir" /\ f[d].perm = "rwx"

Under(p, o) == p = o \/ HasPrefix(p, o \o sSlash)

MovedPath(p, o, n) == n \o SubSeq(p, Len(o) + 1, Len(p))

MoveInto(f, o, n, src, keep) ==
    [q \in keep \cup {MovedPath(p, o, n) : p \in src} |->
        IF q \in keep THEN f[q] ELSE f[CHOOSE p \in src : MovedPath(p, o, n) = q]]

\* rename(2) of o to n: n, when it exists, is replaced
MoveTree(f, o, n) ==
    MoveInto(f, o, n, {p \in DOMAIN f : Under(p, o)},
             {p \in DOMAIN f : ~Under(p, o) /\ p # n})

RenameAbs(f, o, n) ==
    IF Exists(f, n) /\ f[n].kind = "dir" THEN [ok |-> FALSE, fs |-> f]
    ELSE IF ~Exists(f, o) THEN [ok |-> FALSE, fs |-> f]
    ELSE IF o = n THEN [ok |-> TRUE, fs |-> f]
    ELSE IF ~(Searchable(f, n) /\ n # sEmpty /\ Writable(f, ParentOf(n))
              /\ Writable(f, ParentOf(o)) /\ ~Under(n, o))
         THEN [ok |-> FALSE, fs |-> f]
    ELSE [ok |-> TRUE, fs |-> MoveTree(f, o, n)]

\* os.Rename
Rename(f, oldpath, newpath) == RenameAbs(f, Resolve(oldpath), Resolve(newpath))

\* os.Mkdir on an absolute clean path
Mkdir(f, p) ==
    IF p # sEmpty /\ p \notin DOMAIN f /\ Searchable(f, p) /\ Writable(f, ParentOf(p))
    THEN [ok |-> TRUE, fs |-> (p :> DirNode("rwx")) @@ f]
    ELSE [ok |-> FALSE, fs |-> f]

MkdirIfOk(r, p) == IF r.ok THEN Mkdir(r.fs, p) ELSE r

RECURSIVE MkdirAllAbs(_, _)
MkdirAllAbs(f, p) ==
    IF Exists(f, p) THEN [ok |-> f[p].kind = "dir", fs |-> f]
    ELSE IF p = sEmpty \/ p = sRoot THEN [ok |-> FALSE, fs |-> f]
    ELSE MkdirIfOk(MkdirAllAbs(f, ParentOf(p)), p)

\* os.MkdirAll
MkdirAll(f, path) == MkdirAllAbs(f, Resolve(path))

\* io.Copy into the file os.Create has just truncated
CopyInto(created, s, d) ==
    IF created[s].kind = "dir" THEN [ok |-> FALSE, fs |-> created]
    ELSE [ok |-> TRUE, fs |-> (d :> FileNode(created[s].data, TimeNow)) @@ created]

copyFileAbs(f, s, d) ==
    IF ~Exists(f, s) THEN [ok |-> FALSE, fs |-> f]
    ELSE IF Exists(f, d) /\ f[d].kind = "dir" THEN [ok |-> FALSE, fs |-> f]
    ELSE IF ~Exists(f, d) /\ ~(d # sEmpty /\ d \notin DOMAIN f /\ Searchable(f, d)
                               /\ Writable(f, ParentOf(d)))
         THEN [ok |-> FALSE, fs |-> f]
    ELSE CopyInto((d :> FileNode("", TimeNow)) @@ f, s, d)

\* copyFile: os.Open(src), os.Create(dst), io.Copy
copyFile(f, src, dst) == copyFileAbs(f, Resolve(src), Resolve(dst))

(***************************************************************************)
(* regexp: the patterns of the model are literal strings (they match where *)
(* they occur as a substring) and the one-byte pattern "(", which          *)
(* regexp.Compile rejects; replacement templates contain no '$'.           *)
(***************************************************************************)
Count(s, ch) == Cardinality({i \in 1..Len(s) : s[i] = ch})

\* regexp.Compile: ok unless the parentheses are unbalanced
regexpCompile(p) == [ok |-> Count(p, 40) = Count(p, 41)]

MatchAt(re, name, i) ==
    i + Len(re) - 1 <= Len(name) /\ SubSeq(name, i, i + Len(re) - 1) = re

\* (*Regexp).MatchString
MatchString(re, name) == \E i \in 1..Len(name) : MatchAt(re, name, i)

RECURSIVE ReplaceFrom(_, _, _, _)
ReplaceFrom(re, name, repl, i) ==
    IF i > Len(name) THEN sEmpty
    ELSE IF MatchAt(re, name, i) THEN repl \o ReplaceFrom(re, name, repl, i + Len(re))
    ELSE <<name[i]>> \o ReplaceFrom(re, name, repl, i + 1)

\* (*Regexp).ReplaceAllString
ReplaceAllString(re, name, repl) == ReplaceFrom(re, name, repl, 1)

\* time.Time.Format("20060102_150405")
FormatTime(t) ==
    SprintfD(t.year, 4) \o SprintfD(t.month, 2) \o SprintfD(t.day, 2) \o sUnderscore
    \o SprintfD(t.hour, 2) \o SprintfD(t.min, 2) \o SprintfD(t.sec, 2)

(***************************************************************************)
(* State                                                                   *)
(***************************************************************************)
VARIABLES
    fs,            \* the filesystem
    directory,     \* --dir
    parentDir,     \* --pdir
    ruleType,      \* --rule
    pattern,       \* --pattern
    replacement,   \* --replacement
    recursive,     \* --recursive
    dryRun,        \* --dry-run
    sourcePath,    \* --source-path
    outputDir,     \* --output-dir
    preName,       \* --pre-name
    stack,         \* the call stack of the running invocation: one frame per active loop
    log,           \* the (source, destination) pairs printed so far by the running invocation
    listed,        \* the entries of every listing the running invocation has looped over
    visited,       \* the entries the loop bodies of the running invocation have reached
    before,        \* the filesystem when the running invocation started
    runs           \* the completed invocations, oldest first

flagVars == <<directory, parentDir, ruleType, pattern, replacement, recursive,
              sourcePath, outputDir, preName>>
vars == <<fs, directory, parentDir, ruleType, pattern, replacement, recursive, dryRun,
          sourcePath, outputDir, preName, stack, log, listed, visited, before, runs>>

NoMap == [x \in {} |-> 0]

Frame(fn, dir, entries) ==
    [fn |-> fn, dir |-> dir, entries |-> entries, i |-> 1, seq |-> 1,
     sequenceMap |-> NoMap, sourceName |-> sEmpty, path2Name |-> sEmpty]

EntryPaths(dir, entries) == {Join(dir, entries[k].name) : k \in 1..Len(entries)}

EnterStat(f, dir, info) ==
    IF ~info.ok THEN [ok |-> FALSE, entries |-> << >>]
    ELSE IF ~info.isDir THEN [ok |-> FALSE, entries |-> << >>]
    ELSE ReadDir(f, dir)

\* Stat and ReadDir at the head of processDirectory, processDirectoryWithRule
\* and processFoldernameRename
Enter(f, dir) == EnterStat(f, dir, Stat(f, dir))

\* the invocation of Run ends: its outcome is appended to runs
Finish(d, f, lg, er, ls, vs) ==
    /\ runs' = Append(runs, [dryRun |-> d, before |-> before, after |-> f, log |-> lg,
                             err |-> er, listed |-> ls, visited |-> vs])
    /\ fs' = f
    /\ before' = f
    /\ stack' = << >>
    /\ log' = << >>
    /\ listed' = {}
    /\ visited' = {}
    /\ UNCHANGED flagVars

\* the running invocation goes on
Step(f, st, lg, ls, vs) ==
    /\ fs' = f
    /\ stack' = st
    /\ log' = lg
    /\ listed' = ls
    /\ visited' = vs
    /\ UNCHANGED <<before, runs, flagVars>>

Idle == stack = << >>
Top == stack[Len(stack)]
InLoop(fn) == stack # << >> /\ Top.fn = fn /\ Top.i <= Len(Top.entries)
Advance(fr) == [fr EXCEPT !.i = @ + 1]
SetTop(fr) == [stack EXCEPT ![Len(stack)] = fr]
Cur == Top.entries[Top.i]
CurPath == Join(Top.dir, Cur.name)

Called(d, fn, dir, e) ==
    IF e.ok
    THEN Step(fs, <<Frame(fn, dir, e.entries)>>, << >>, EntryPaths(dir, e.entries), {})
    ELSE Finish(d, fs, << >>, "root", {}, {})

\* Run calls the engine fn on dir: it returns an error at once or starts its loop
Call(d, fn, dir) == Called(d, fn, dir, Enter(fs, dir))

Logged(lg, src, dst, action, res) ==
    Append(lg, [src |-> src, dst |-> dst, action |-> action, res |-> res])

Performed(lg, src, dst, action, r) ==
    [fs |-> r.fs, log |-> Logged(lg, src, dst, action, IF r.ok THEN "ok" ELSE "failed")]

\* Attempt without the dry-run branch
AttemptAlways(f, lg, src, dst, action) ==
    Performed(lg, src, dst, action,
              IF action = "copy" THEN copyFile(f, src, dst) ELSE Rename(f, src, dst))

\* "Would rename" / "Renaming" with os.Rename, "Would copy" / "Copying" with copyFile
Attempt(f, lg, src, dst, action) ==
    IF dryRun THEN [fs |-> f, log |-> Logged(lg, src, dst, action, "planned")]
    ELSE Performed(lg, src, dst, action,
                   IF action = "copy" THEN copyFile(f, src, dst) ELSE Rename(f, src, dst))

Descended(fn, path, e) ==
    IF recursive /\ e.ok
    THEN Step(fs, Append(SetTop(Advance(Top)), Frame(fn, path, e.entries)), log,
              listed \cup EntryPaths(path, e.entries), visited \cup {path})
    ELSE Step(fs, SetTop(Advance(Top)), log, listed, visited \cup {path})

\* a directory entry met by processDirectory or processDirectoryWithRule
Descend(fn) == Descended(fn, CurPath, Enter(fs, CurPath))

\* Operated, returning the error of a failed rename to the caller
OperatedOrAbort(a, fr, path) ==
    IF a.log[Len(a.log)].res = "failed"
    THEN /\ Finish(dryRun, a.fs, a.log, "rename", listed, visited \cup {path})
    ELSE Step(a.fs, SetTop(fr), a.log, listed, visited \cup {path})

Operated(a, fr, path) == Step(a.fs, SetTop(fr), a.log, listed, visited \cup {path})

\* a file entry: the planned operation is logged, and performed unless dry-run
Operate(newPath, fr) ==
    Operated(Attempt(fs, log, CurPath, newPath, "rename"), fr, CurPath)

Skip == Step(fs, SetTop(Advance(Top)), log, listed, visited \cup {CurPath})

(***************************************************************************)
(* RenameCmd.Run                                                           *)
(***************************************************************************)
MaxInvocations == 2

isWxExporter == ToLower(ruleType) = sWxExporter
isFoldernameRename == ~isWxExporter /\ ToLower(ruleType) = sFoldernameRename
CanRun == Idle /\ Len(runs) < MaxInvocations

\* findPath2Directories: the immediate subdirectories of path1
findPath2Directories(path1, dirs) ==
    [k \in 1..Len(dirs) |-> [name |-> Join(path1, dirs[k].name), isDir |-> TRUE]]

WxLoop(f, src, path2Dirs) ==
    Step(f,
         <<[Frame("processWxExporter", src, path2Dirs)
              EXCEPT !.sourceName = IF preName # sEmpty THEN preName ELSE Base(src)]>>,
         << >>, {path2Dirs[k].name : k \in 1..Len(path2Dirs)}, {})

WxFound(d, f, src, rd) ==
    IF ~rd.ok THEN Finish(d, f, << >>, "root", {}, {})
    ELSE WxLoop(f, src, findPath2Directories(src, SelectSeq(rd.entries, LAMBDA e : e.isDir)))

WxMade(d, src, mk) ==
    IF ~mk.ok THEN Finish(d, mk.fs, << >>, "mkdir", {}, {})
    ELSE WxFound(d, mk.fs, src, ReadDir(mk.fs, src))

\* --rule wx-exporter: processWxExporter up to its loop over the path2 directories
RunWxExporter(d) ==
    /\ CanRun /\ isWxExporter
    /\ dryRun' = d
    /\ WxMade(d, IF sourcePath = sEmpty THEN sCwd ELSE sourcePath,
              IF d THEN [ok |-> TRUE, fs |-> fs] ELSE MkdirAll(fs, outputDir))

\* RunFoldernameUsage letting --dir win when --pdir is given as well
RunFoldernameUsagePrefersDir(d) ==
    /\ CanRun /\ isFoldernameRename
    /\ (directory = sEmpty /\ parentDir = sEmpty) \/ (directory # sEmpty /\ parentDir # sEmpty)
    /\ dryRun' = d
    /\ IF directory # sEmpty THEN Call(d, "processFoldernameRename", directory)
       ELSE Finish(d, fs, << >>, "usage", {}, {})

\* --rule foldername-rename with both or neither of --dir and --pdir
RunFoldernameUsage(d) ==
    /\ CanRun /\ isFoldernameRename
    /\ (directory = sEmpty /\ parentDir = sEmpty) \/ (directory # sEmpty /\ parentDir # sEmpty)
    /\ dryRun' = d
    /\ Finish(d, fs, << >>, "usage", {}, {})

\* --rule foldername-rename --dir
RunFoldernameDir(d) ==
    /\ CanRun /\ isFoldernameRename
    /\ directory # sEmpty /\ parentDir = sEmpty
    /\ dryRun' = d
    /\ Call(d, "processFoldernameRename", directory)

BatchRead(d, rd) ==
    IF rd.ok
    THEN Step(fs, <<Frame("RunBatch", parentDir, rd.entries)>>, << >>,
              EntryPaths(parentDir, rd.entries), {})
    ELSE Finish(d, fs, << >>, "root", {}, {})

\* --rule foldername-rename --pdir
RunFoldernameBatch(d) ==
    /\ CanRun /\ isFoldernameRename
    /\ directory = sEmpty /\ parentDir # sEmpty
    /\ dryRun' = d
    /\ BatchRead(d, ReadDir(fs, parentDir))

\* any other mode without --dir
RunNoDirectory(d) ==
    /\ CanRun /\ ~isWxExporter /\ ~isFoldernameRename
    /\ directory = sEmpty
    /\ dryRun' = d
    /\ Finish(d, fs, << >>, "usage", {}, {})

RuleCalled(d, e) ==
    IF e.ok /\ ToLower(ruleType) \notin {sTimestamp, sSequence, sLowercase}
    THEN Finish(d, fs, << >>, "unknown rule", {}, {})
    ELSE Called(d, "processDirectoryWithRule", directory, e)

\* --rule <name>: processDirectoryWithRule up to its loop
RunRule(d) ==
    /\ CanRun /\ ~isWxExporter /\ ~isFoldernameRename
    /\ directory # sEmpty /\ ruleType # sEmpty
    /\ dryRun' = d
    /\ RuleCalled(d, Enter(fs, directory))

\* neither --rule nor --pattern
RunNoPattern(d) ==
    /\ CanRun /\ directory # sEmpty /\ ruleType = sEmpty
    /\ pattern = sEmpty
    /\ dryRun' = d
    /\ Finish(d, fs, << >>, "usage", {}, {})

\* --pattern does not compile
RunBadPattern(d) ==
    /\ CanRun /\ directory # sEmpty /\ ruleType = sEmpty
    /\ pattern # sEmpty /\ ~regexpCompile(pattern).ok
    /\ dryRun' = d
    /\ Finish(d, fs, << >>, "usage", {}, {})

\* RunPattern with the pattern tested before the rule
RunPatternBeforeRule(d) ==
    /\ CanRun /\ ~isWxExporter /\ ~isFoldernameRename /\ directory # sEmpty
    /\ pattern # sEmpty /\ regexpCompile(pattern).ok
    /\ dryRun' = d
    /\ Call(d, "processDirectory", directory)

\* --pattern: processDirectory up to its loop
RunPattern(d) ==
    /\ CanRun /\ directory # sEmpty /\ ruleType = sEmpty
    /\ pattern # sEmpty /\ regexpCompile(pattern).ok
    /\ dryRun' = d
    /\ Call(d, "processDirectory", directory)

(***************************************************************************)
(* The loops of the engines, one entry per step                            *)
(***************************************************************************)
\* processDirectory: one entry of the listing
StepPattern ==
    /\ InLoop("processDirectory")
    /\ UNCHANGED dryRun
    /\ IF Cur.isDir THEN Descend("processDirectory")
       ELSE IF MatchString(pattern, Cur.name)
            THEN Operate(Join(Top.dir, ReplaceAllString(pattern, Cur.name, replacement)),
                         Advance(Top))
            ELSE Skip

\* entry.Info(): the file is lstat-ed when Info is called, not when it was listed
TimestampFile(fileInfo) ==
    IF ~fileInfo.ok THEN Skip
    ELSE Operate(Join(Top.dir, FormatTime(fileInfo.modTime) \o sUnderscore \o Cur.name),
                 Advance(Top))

\* processDirectoryWithRule, case "timestamp"
StepTimestamp ==
    /\ InLoop("processDirectoryWithRule") /\ ToLower(ruleType) = sTimestamp
    /\ UNCHANGED dryRun
    /\ IF Cur.isDir THEN Descend("processDirectoryWithRule")
       ELSE TimestampFile(Stat(fs, CurPath))

\* processDirectoryWithRule, case "sequence"
StepSequence ==
    /\ InLoop("processDirectoryWithRule") /\ ToLower(ruleType) = sSequence
    /\ UNCHANGED dryRun
    /\ IF Cur.isDir THEN Descend("processDirectoryWithRule")
       ELSE Operate(Join(Top.dir, sFilePrefix \o SprintfD(Top.i, 3) \o Ext(Cur.name)),
                    Advance(Top))

\* StepLowercase without the test for a name that is already lowercase
StepLowercaseNoSkip ==
    /\ InLoop("processDirectoryWithRule") /\ ToLower(ruleType) = sLowercase
    /\ UNCHANGED dryRun
    /\ IF Cur.isDir THEN Descend("processDirectoryWithRule")
       ELSE Operate(Join(Top.dir, ToLower(Cur.name)), Advance(Top))

\* processDirectoryWithRule, case "lowercase"
StepLowercase ==
    /\ InLoop("processDirectoryWithRule") /\ ToLower(ruleType) = sLowercase
    /\ UNCHANGED dryRun
    /\ IF Cur.isDir THEN Descend("processDirectoryWithRule")
       ELSE IF ToLower(Cur.name) = Cur.name THEN Skip
       ELSE Operate(Join(Top.dir, ToLower(Cur.name)), Advance(Top))

\* StepFoldername with seq incremented for directories too
StepFoldernameCountsDirs ==
    /\ InLoop("processFoldernameRename")
    /\ UNCHANGED dryRun
    /\ IF Cur.isDir
       THEN Step(fs, SetTop([Advance(Top) EXCEPT !.seq = @ + 1]), log, listed,
                 visited \cup {CurPath})
       ELSE Operate(Join(Top.dir, Base(Top.dir) \o sUnderscore \o SprintfD(Top.seq, 3)
                                   \o Ext(Cur.name)),
                    [Advance(Top) EXCEPT !.seq = @ + 1])

\* processFoldernameRename: one entry of the listing
StepFoldername ==
    /\ InLoop("processFoldernameRename")
    /\ UNCHANGED dryRun
    /\ IF Cur.isDir THEN Skip
       ELSE Operate(Join(Top.dir, Base(Top.dir) \o sUnderscore \o SprintfD(Top.seq, 3)
                                   \o Ext(Cur.name)),
                    [Advance(Top) EXCEPT !.seq = @ + 1])

BatchEntered(path, e) ==
    IF e.ok
    THEN Step(fs, Append(SetTop(Advance(Top)),
                         Frame("processFoldernameRename", path, e.entries)),
              log, listed \cup EntryPaths(path, e.entries), visited \cup {path})
    ELSE Step(fs, SetTop(Advance(Top)), log, listed, visited \cup {path})

\* Run, batch mode: one entry of the parent directory
StepBatch ==
    /\ InLoop("RunBatch")
    /\ UNCHANGED dryRun
    /\ IF Cur.isDir THEN BatchEntered(CurPath, Enter(fs, CurPath)) ELSE Skip

WxAssetsRead(path2Dir, assetsDir, assetsInfo, assetFiles) ==
    IF ~assetsInfo.ok \/ ~assetsInfo.isDir \/ ~assetFiles.ok
    THEN Step(fs, SetTop(Advance(Top)), log, listed, visited \cup {path2Dir})
    ELSE Step(fs,
              Append(SetTop(Advance(Top)),
                     [Frame("wxAssets", assetsDir, assetFiles.entries)
                        EXCEPT !.path2Name = Base(path2Dir),
                               !.sourceName = Top.sourceName]),
              log, listed \cup EntryPaths(assetsDir, assetFiles.entries),
              visited \cup {path2Dir})

WxAssets(path2Dir, assetsDir) ==
    WxAssetsRead(path2Dir, assetsDir, Stat(fs, assetsDir), ReadDir(fs, assetsDir))

\* processWxExporter: one path2 directory
StepWxPath2 ==
    /\ InLoop("processWxExporter")
    /\ UNCHANGED dryRun
    /\ WxAssets(Cur.name, Join(Cur.name, sAssets))

\* Increment with one counter shared by all the path2 names
IncrementShared(m, k) ==
    (k :> 1 + Cardinality(DOMAIN m) + MaxOrZero({m[x] - 1 : x \in DOMAIN m})) @@ m

\* sequenceMap[path2Name]++
Increment(m, k) == IF k \in DOMAIN m THEN [m EXCEPT ![k] = @ + 1] ELSE (k :> 1) @@ m

WxCopied(sequenceMap, a, path) ==
    Step(a.fs,
         [stack EXCEPT ![Len(stack)] = Advance(Top),
                       ![Len(stack) - 1] = [@ EXCEPT !.sequenceMap = sequenceMap]],
         a.log, listed, visited \cup {path})

\* WxNewName without the name of path2
WxNewNameWithoutPath2(ext, sequence) ==
    Top.sourceName \o sUnderscore \o SprintfD(sequence, 3) \o ext

\* newName := fmt.Sprintf("%s_%s_%03d%s", sourceName, path2Name, sequence, ext)
WxNewName(ext, sequence) ==
    Top.sourceName \o sUnderscore \o Top.path2Name \o sUnderscore
    \o SprintfD(sequence, 3) \o ext

WxCopy(ext, sequenceMap, filePath) ==
    WxCopied(sequenceMap,
             Attempt(fs, log, filePath,
                     Join(outputDir, WxNewName(ext, sequenceMap[Top.path2Name])), "copy"),
             filePath)

WxFile(ext) ==
    IF ext \notin ImageExts THEN Skip
    ELSE WxCopy(ext, Increment(stack[Len(stack) - 1].sequenceMap, Top.path2Name), CurPath)

\* processWxExporter: one entry of path2/assets
StepWxFile ==
    /\ InLoop("wxAssets")
    /\ UNCHANGED dryRun
    /\ IF Cur.isDir THEN Skip ELSE WxFile(ToLower(Ext(Cur.name)))

\* a loop is over: the function returns nil to its caller, or Run ends
Return ==
    /\ stack # << >> /\ Top.i > Len(Top.entries)
    /\ UNCHANGED dryRun
    /\ IF Len(stack) = 1 THEN Finish(dryRun, fs, log, "none", listed, visited)
       ELSE Step(fs, SubSeq(stack, 1, Len(stack) - 1), log, listed, visited)

(***************************************************************************)
(* The inputs: filesystems and flag values                                 *)
(***************************************************************************)
Time1 == [year |-> 2024, month |-> 1, day |-> 2, hour |-> 3, min |-> 4, sec |-> 5]
Time2 == [year |-> 2023, month |-> 11, day |-> 12, hour |-> 13, min |-> 14, sec |-> 15]

\* "/" and the working directory exist in every filesystem
BaseFS == (sRoot :> DirNode("rwx")) @@ (sCwd :> DirNode("rwx"))

\* all the ways to pick, for some of the paths of C, one of the nodes C offers
RECURSIVE Choices(_, _)
Choices(C, P) ==
    IF P = {} THEN {[x \in {} |-> 0]}
    ELSE LET p == CHOOSE x \in P : TRUE
         IN UNION {{g} \cup {(p :> n) @@ g : n \in C[p]} : g \in Choices(C, P \ {p})}

\* the filesystems over the candidate entries C: every entry has its parent directory
Trees(C) ==
    {g @@ BaseFS : g \in {h \in Choices(C, DOMAIN C) :
        \A p \in DOMAIN h : \A a \in Ancestors(p) \ DOMAIN BaseFS :
            a \in DOMAIN h /\ h[a].kind = "dir"}}

Flags(f, dir, pdir, rule, pat, repl, rec, src, out, pre) ==
    [fs |-> f, directory |-> dir, parentDir |-> pdir, ruleType |-> rule, pattern |-> pat,
     replacement |-> repl, recursive |-> rec, sourcePath |-> src, outputDir |-> out,
     preName |-> pre]

pD == <<47,119,47,100>>
pMissing == <<47,119,47,120>>
pF == <<47,119,47,102>>
sWxExport == <<119,120,45,101,120,112,111,114,116>>
pOut == <<47,119,47,111,117,116>>

SmallTree == (<<47,119,47,100>> :> {DirNode("rwx")}) @@ (<<47,119,47,100,47,97>> :> {FileNode("A", Time1)})

PatternTree ==
    (<<47,119,47,100>> :> {DirNode("rwx"), DirNode("r-x"), FileNode("F", Time1)})
    @@ (<<47,119,47,100,47,97>> :> {FileNode("A", Time1)})
    @@ (<<47,119,47,100,47,97,98>> :> {FileNode("E", Time1)})
    @@ (<<47,119,47,100,47,98>> :> {FileNode("B", Time1), DirNode("rwx")})
    @@ (<<47,119,47,100,47,115>> :> {DirNode("rwx"), DirNode("---")})
    @@ (<<47,119,47,100,47,115,47,97>> :> {FileNode("C", Time1)})

PatternConfigs ==
    {Flags(f, pD, sEmpty, sEmpty, <<97>>, repl, rec, sEmpty, sWxExport, sEmpty) :
        f \in Trees(PatternTree), repl \in {<<98>>, <<115,47,97>>}, rec \in BOOLEAN}
    \cup {Flags(f, dir, sEmpty, sEmpty, pat, <<98>>, rec, sEmpty, sWxExport, sEmpty) :
            f \in Trees(SmallTree), dir \in {pD, sEmpty}, pat \in {sEmpty, <<40>>, <<97>>},
            rec \in BOOLEAN}

TimestampTree ==
    (<<47,119,47,100>> :> {DirNode("rwx"), FileNode("F", Time1)})
    @@ (<<47,119,47,100,47,49>> :> {FileNode("A", Time1)})
    @@ (<<47,119,47,100,47,50,48,50,52,48,49,48,50,95,48,51,48,52,48,53,95,49>> :> {FileNode("B", Time2)})
    @@ (<<47,119,47,100,47,98>> :> {DirNode("rwx"), DirNode("---")})
    @@ (<<47,119,47,100,47,98,47,67>> :> {FileNode("C", Time2)})

SequenceTree ==
    (<<47,119,47,100>> :> {DirNode("rwx"), DirNode("r-x"), FileNode("F", Time1)})
    @@ (<<47,119,47,100,47,65,46,84>> :> {FileNode("A", Time1)})
    @@ (<<47,119,47,100,47,97,46,116>> :> {FileNode("B", Time1)})
    @@ (<<47,119,47,100,47,98>> :> {DirNode("rwx"), DirNode("---")})
    @@ (<<47,119,47,100,47,98,47,67>> :> {FileNode("C", Time1)})
    @@ (<<47,119,47,100,47,102,105,108,101,95,48,48,50,46,116>> :> {FileNode("D", Time1)})

LowercaseTree ==
    (<<47,119,47,100>> :> {DirNode("rwx"), DirNode("r-x"), FileNode("F", Time1)})
    @@ (<<47,119,47,100,47,65,46,84>> :> {FileNode("A", Time1)})
    @@ (<<47,119,47,100,47,97,46,116>> :> {FileNode("B", Time1)})
    @@ (<<47,119,47,100,47,98>> :> {DirNode("rwx"), DirNode("---")})
    @@ (<<47,119,47,100,47,98,47,67>> :> {FileNode("C", Time1)})

RuleConfigs ==
    {Flags(f, pD, sEmpty, sTimestamp, sEmpty, sEmpty, rec, sEmpty, sWxExport, sEmpty) :
        f \in Trees(TimestampTree), rec \in BOOLEAN}
    \cup {Flags(f, pD, sEmpty, sSequence, sEmpty, sEmpty, rec, sEmpty, sWxExport, sEmpty) :
            f \in Trees(SequenceTree), rec \in BOOLEAN}
    \cup {Flags(f, pD, sEmpty, sLowercase, sEmpty, sEmpty, rec, sEmpty, sWxExport, sEmpty) :
            f \in Trees(LowercaseTree), rec \in BOOLEAN}
    \cup {Flags(f, dir, sEmpty, rule, pat, <<98>>, rec, sEmpty, sWxExport, sEmpty) :
            f \in Trees(SmallTree), dir \in {pD, sEmpty},
            rule \in {<<98,111,103,117,115>>, <<83,101,113,117,101,110,99,101>>, <<76,79,87,69,82,67,65,83,69>>}, pat \in {sEmpty, <<97>>},
            rec \in BOOLEAN}

FolderTree ==
    (<<47,119,47,100>> :> {DirNode("rwx"), FileNode("F", Time1)})
    @@ (<<47,119,47,100,47,65,46,84>> :> {FileNode("A", Time1)})
    @@ (<<47,119,47,100,47,98>> :> {DirNode("rwx"), DirNode("---")})
    @@ (<<47,119,47,100,47,98,47,67>> :> {FileNode("C", Time1)})
    @@ (<<47,119,47,100,47,99>> :> {DirNode("rwx"), DirNode("r-x")})
    @@ (<<47,119,47,100,47,99,47,75,46,116>> :> {FileNode("K", Time1)})
    @@ (<<47,119,47,100,47,99,47,97>> :> {DirNode("rwx")})
    @@ (<<47,119,47,100,47,99,47,97,47,122>> :> {FileNode("Z", Time1)})
    @@ (<<47,119,47,100,47,99,47,99,95,48,48,49,46,116>> :> {FileNode("D", Time1)})

FolderConfigs ==
    {Flags(f, m[1], m[2], sFoldernameRename, sEmpty, sEmpty, FALSE, sEmpty, sWxExport, sEmpty) :
        f \in Trees(FolderTree), m \in {<<<<47,119,47,100,47,99>>, sEmpty>>, <<sEmpty, pD>>}}
    \cup {Flags(f, m[1], m[2], rule, pat, sEmpty, FALSE, sEmpty, sWxExport, sEmpty) :
            f \in Trees(SmallTree), m \in {<<pD, pD>>, <<sEmpty, sEmpty>>, <<pD, sEmpty>>},
            rule \in {sFoldernameRename, <<70,111,108,100,101,114,78,97,109,101,45,82,101,110,97,109,101>>},
            pat \in {sEmpty, <<97>>}}

\* the images of one assets directory, with entries that do not qualify
WxTreeA ==
    (<<47,119,47,97>> :> {DirNode("rwx")})
    @@ (<<47,119,47,97,47,97,115,115,101,116,115>> :> {DirNode("rwx")})
    @@ (<<47,119,47,97,47,97,115,115,101,116,115,47,73,46,80,78,71>> :> {FileNode("I", Time1)})
    @@ (<<47,119,47,97,47,97,115,115,101,116,115,47,106,46,106,112,103>> :> {FileNode("J", Time1)})
    @@ (<<47,119,47,97,47,97,115,115,101,116,115,47,97,46,116,120,116>> :> {FileNode("N", Time1)})
    @@ (<<47,119,47,97,47,97,115,115,101,116,115,47,99,46,112,110,103>> :> {DirNode("rwx")})
    @@ (<<47,119,47,97,47,97,115,115,101,116,115,47,99,46,112,110,103,47,109,46,112,110,103>> :> {FileNode("M", Time1)})
    @@ (<<47,119,47,98>> :> {DirNode("rwx")})
    @@ (<<47,119,47,98,47,97,115,115,101,116,115>> :> {DirNode("rwx")})
    @@ (<<47,119,47,98,47,97,115,115,101,116,115,47,107,46,112,110,103>> :> {FileNode("K", Time1)})
    @@ (<<47,119,47,98,47,97,115,115,101,116,115,47,111,46,103,105,102>> :> {FileNode("O", Time1)})
    @@ (<<47,119,47,111,117,116>> :> {DirNode("rwx"), DirNode("r-x")})
    @@ (<<47,119,47,111,117,116,47,119,95,97,95,48,48,49,46,112,110,103>> :> {DirNode("rwx")})

\* the shapes of path1: assets missing, a plain file, unreadable, or deeper than path2
WxTreeB ==
    (<<47,119,47,97>> :> {DirNode("rwx")})
    @@ (<<47,119,47,97,47,97,115,115,101,116,115>> :> {DirNode("rwx"), DirNode("---"), FileNode("S", Time1)})
    @@ (<<47,119,47,97,47,97,115,115,101,116,115,47,73,46,80,78,71>> :> {FileNode("I", Time1)})
    @@ (<<47,119,47,98>> :> {DirNode("rwx")})
    @@ (<<47,119,47,98,47,97,115,115,101,116,115>> :> {DirNode("rwx")})
    @@ (<<47,119,47,98,47,97,115,115,101,116,115,47,111,46,103,105,102>> :> {FileNode("O", Time1)})
    @@ (<<47,119,47,98,47,113>> :> {DirNode("rwx")})
    @@ (<<47,119,47,98,47,113,47,97,115,115,101,116,115>> :> {DirNode("rwx")})
    @@ (<<47,119,47,98,47,113,47,97,115,115,101,116,115,47,122,46,112,110,103>> :> {FileNode("Z", Time1)})
    @@ (<<47,119,47,102>> :> {FileNode("F", Time1)})
    @@ (<<47,119,47,111,46,103,105,102>> :> {FileNode("G", Time1)})

WxConfigs ==
    {Flags(f, sEmpty, sEmpty, sWxExporter, sEmpty, sEmpty, FALSE, sEmpty, pOut, pre) :
        f \in Trees(WxTreeA), pre \in {sEmpty, <<115,105,116,101>>}}
    \cup {Flags(f, sEmpty, sEmpty, rule, sEmpty, sEmpty, FALSE, src, out, sEmpty) :
            f \in Trees(WxTreeB), rule \in {sWxExporter},
            src \in {sCwd, pMissing, pF},
            out \in {pOut, sWxExport, <<47,119,47,98,47,97,115,115,101,116,115>>, <<47,119,47,102,47,111>>}}
    \cup {Flags(f, pD, sEmpty, <<87,88,45,69,120,112,111,114,116,101,114>>, <<97>>, <<98>>, TRUE, sEmpty, pOut, sEmpty) :
            f \in Trees(SmallTree)}

Configs == PatternConfigs \cup RuleConfigs \cup FolderConfigs \cup WxConfigs

(***************************************************************************)
(* Specification                                                           *)
(***************************************************************************)
Init ==
    \E c \in Configs :
        /\ fs = c.fs
        /\ before = c.fs
        /\ directory = c.directory
        /\ parentDir = c.parentDir
        /\ ruleType = c.ruleType
        /\ pattern = c.pattern
        /\ replacement = c.replacement
        /\ recursive = c.recursive
        /\ sourcePath = c.sourcePath
        /\ outputDir = c.outputDir
        /\ preName = c.preName
        /\ dryRun = FALSE
        /\ stack = << >>
        /\ log = << >>
        /\ listed = {}
        /\ visited = {}
        /\ runs = << >>

Next ==
    \/ \E d \in BOOLEAN : RunWxExporter(d)
    \/ \E d \in BOOLEAN : RunFoldernameUsage(d)
    \/ \E d \in BOOLEAN : RunFoldernameDir(d)
    \/ \E d \in BOOLEAN : RunFoldernameBatch(d)
    \/ \E d \in BOOLEAN : RunNoDirectory(d)
    \/ \E d \in BOOLEAN : RunRule(d)
    \/ \E d \in BOOLEAN : RunNoPattern(d)
    \/ \E d \in BOOLEAN : RunBadPattern(d)
    \/ \E d \in BOOLEAN : RunPattern(d)
    \/ StepPattern
    \/ StepTimestamp
    \/ StepSequence
    \/ StepLowercase
    \/ StepFoldername
    \/ StepBatch
    \/ StepWxPath2
    \/ StepWxFile
    \/ Return

Spec == Init /\ [][Next]_vars

(***************************************************************************)
(* Properties                                                              *)
(***************************************************************************)
Pairs(lg) == [k \in 1..Len(lg) |-> <<lg[k].src, lg[k].dst>>]

\* the operations of lg up to the idx-th that have their source in the same directory
Rank(lg, idx) ==
    Cardinality({j \in 1..idx : ParentOf(lg[j].src) = ParentOf(lg[idx].src)})

\* the logs of the completed invocations and of the running one
AllLogs == {runs[k].log : k \in 1..Len(runs)} \cup {log}

IsPatternRun ==
    ~isWxExporter /\ ~isFoldernameRename /\ directory # sEmpty /\ ruleType = sEmpty
    /\ pattern # sEmpty /\ regexpCompile(pattern).ok
IsRuleRun(rule) ==
    ~isWxExporter /\ ~isFoldernameRename /\ directory # sEmpty /\ ToLower(ruleType) = rule
WxSource == IF sourcePath = sEmpty THEN sCwd ELSE sourcePath
WxPrefix == IF preName # sEmpty THEN preName ELSE Base(WxSource)

\* the directory an invocation hands to its engine
RootPath ==
    IF isWxExporter THEN WxSource
    ELSE IF isFoldernameRename /\ directory = sEmpty THEN parentDir
    ELSE directory
NotADirectory(info) == ~info.ok \/ ~info.isDir

\* C1: a dry-run and an execute run started from the same filesystem report
\* and attempt the same sequence of (source, destination) pairs (stated for
\* the runs in which neither invocation returns an error).
DryRunPlansWhatExecuteAttempts ==
    \A i \in 1..Len(runs) : \A j \in 1..Len(runs) :
        (runs[i].dryRun /\ ~runs[j].dryRun /\ runs[i].before = runs[j].before
         /\ runs[i].err = "none" /\ runs[j].err = "none")
            => Pairs(runs[i].log) = Pairs(runs[j].log)

\* C2: a dry-run invocation leaves the filesystem as it found it: this holds
\* at every step of the invocation and when it has ended, for every engine.
DryRunLeavesFilesystem ==
    /\ \A k \in 1..Len(runs) : runs[k].dryRun => runs[k].after = runs[k].before
    /\ (~Idle /\ dryRun) => fs = before

\* a dry-run of the asset export has planned a copy and the output directory
\* still does not exist
DryRunLeavesFilesystemWitness ==
    \E k \in 1..Len(runs) :
        /\ runs[k].dryRun /\ isWxExporter /\ Len(runs[k].log) > 0
        /\ ~Exists(runs[k].after, Resolve(outputDir))

\* C3: an engine given a root that is missing or not a directory returns a
\* root-access error and leaves the filesystem unchanged, in execute mode too.
RootErrorChangesNothing ==
    \A k \in 1..Len(runs) :
        (runs[k].err # "usage" /\ NotADirectory(Stat(runs[k].before, RootPath)))
            => (runs[k].err = "root" /\ runs[k].after = runs[k].before)

\* C4: in execute mode a failed rename or copy, or a subdirectory that cannot
\* be entered, stops nothing: every entry of every listing taken is reached
\* by its loop, and an error is returned only before the first entry is
\* processed (never after an item failed).
ItemFailuresDoNotStopTheRun ==
    \A k \in 1..Len(runs) :
        ~runs[k].dryRun =>
            /\ runs[k].listed \subseteq runs[k].visited
            /\ runs[k].err # "none" => (runs[k].log = << >> /\ runs[k].listed = {})

\* an execute run of the pattern engine with recursion: a rename failed, a
\* later one succeeded, a subdirectory could not be entered, no error returned
ItemFailuresDoNotStopTheRunWitness ==
    \E k \in 1..Len(runs) :
        /\ ~runs[k].dryRun /\ runs[k].err = "none" /\ recursive
        /\ \E i \in 1..Len(runs[k].log) : \E j \in 1..Len(runs[k].log) :
              i < j /\ runs[k].log[i].res = "failed" /\ runs[k].log[j].res = "ok"
        /\ \E p \in runs[k].visited :
              /\ p \in DOMAIN runs[k].before
              /\ runs[k].before[p].kind = "dir" /\ runs[k].before[p].perm = "---"

\* C5: after an execute run of the pattern engine every entry of the directory
\* whose name does not match the pattern is still there, unchanged.
NonMatchingEntriesUntouched ==
    \A k \in 1..Len(runs) :
        (IsPatternRun /\ ~runs[k].dryRun /\ runs[k].err = "none") =>
            \A p \in DOMAIN runs[k].before :
                (ParentOf(p) = Resolve(directory) /\ p # sRoot
                 /\ ~MatchString(pattern, Base(p)))
                    => (p \in DOMAIN runs[k].after /\ runs[k].after[p] = runs[k].before[p])

\* C6: under the sequence rule the k-th file renamed in a directory gets the
\* number k, whatever directories stand in the listing.
SequenceNumbersCountFiles ==
    \A k \in 1..Len(runs) :
        IsRuleRun(sSequence) =>
            \A idx \in 1..Len(runs[k].log) :
                runs[k].log[idx].dst =
                    Join(ParentOf(runs[k].log[idx].src),
                         sFilePrefix \o SprintfD(Rank(runs[k].log, idx), 3)
                         \o Ext(runs[k].log[idx].src))

ClaimedImageExts == { <<46,106,112,103>>, <<46,106,112,101,103>>, <<46,112,110,103>>,
                      <<46,103,105,102>>, <<46,119,101,98,112>> }
Qualifies(e) == ~e.isDir /\ ToLower(Ext(e.name)) \in ClaimedImageExts

\* the three digits before the extension of an output name
SeqDigitsAt(name, n) == SubSeq(name, n - 2, n)
SeqDigits(dst) == SeqDigitsAt(Base(dst), Len(Base(dst)) - Len(Ext(dst)))

CounterOf(m, key) == IF key \in DOMAIN m THEN m[key] ELSE 0

\* C7: in asset export the k-th qualifying image of one path2/assets gets
\* the number k, in every invocation anew: the counter of the path2 being
\* processed equals the number of qualifying entries already passed, and the
\* k-th copy logged for an assets directory carries the number k, failed or not.
WxNumbersCountImages ==
    isWxExporter =>
        /\ \A lg \in AllLogs : \A idx \in 1..Len(lg) :
              SeqDigits(lg[idx].dst) = SprintfD(Rank(lg, idx), 3)
        /\ (Len(stack) = 2) =>
              CounterOf(stack[1].sequenceMap, Top.path2Name) =
                  Cardinality({j \in 1..(Top.i - 1) : j <= Len(Top.entries)
                                                       /\ Qualifies(Top.entries[j])})

\* an execute run copied from two path2 directories; in the first a directory
\* and a non-image precede an image, its first copy failed and its second,
\* numbered 002, succeeded
WxNumbersCountImagesWitness ==
    \E k \in 1..Len(runs) :
        /\ isWxExporter /\ ~runs[k].dryRun /\ Len(runs[k].log) = 3
        /\ runs[k].log[1].res = "failed" /\ runs[k].log[2].res = "ok"
        /\ ParentOf(runs[k].log[1].src) = ParentOf(runs[k].log[2].src)
        /\ ParentOf(runs[k].log[3].src) # ParentOf(runs[k].log[2].src)
        /\ SeqDigits(runs[k].log[3].dst) = <<48, 48, 49>>
        /\ \E p \in DOMAIN runs[k].before : \E q \in DOMAIN runs[k].before :
              /\ ParentOf(p) = ParentOf(runs[k].log[2].src)
              /\ ParentOf(q) = ParentOf(runs[k].log[2].src)
              /\ runs[k].before[p].kind = "dir"
              /\ runs[k].before[q].kind = "file" /\ q \notin {runs[k].log[1].src, runs[k].log[2].src}
              /\ LexLess(Base(p), Base(runs[k].log[2].src))
              /\ LexLess(Base(q), Base(runs[k].log[2].src))

IsAssetImage(f, src) ==
    /\ src \in DOMAIN f /\ f[src].kind = "file"
    /\ ToLower(Ext(src)) \in ClaimedImageExts
    /\ Base(ParentOf(src)) = sAssets
    /\ f[ParentOf(src)].kind = "dir"
    /\ f[ParentOf(ParentOf(src))].kind = "dir"
    /\ ParentOf(ParentOf(ParentOf(src))) = Resolve(WxSource)

\* C8: asset export copies only files that lie directly in <path1>/<path2>/assets
\* and have an image extension; a path2 without an assets directory is passed
\* over and the run ends without error.
WxCopiesOnlyAssetImages ==
    isWxExporter =>
        /\ \A idx \in 1..Len(log) : IsAssetImage(fs, log[idx].src)
        /\ \A k \in 1..Len(runs) :
              /\ \A idx \in 1..Len(runs[k].log) :
                    IsAssetImage(runs[k].after, runs[k].log[idx].src)
              /\ runs[k].err \in {"none", "root", "mkdir"}
              /\ runs[k].err # "none" => runs[k].log = << >>

\* an execute run copied an image although path1 also holds an image below a
\* directory of assets, a text file in assets, an image directly in path1 or
\* in an assets directory deeper than path2, or a path2 whose assets is a file
WxCopiesOnlyAssetImagesWitness ==
    \E k \in 1..Len(runs) :
        /\ isWxExporter /\ ~runs[k].dryRun /\ runs[k].err = "none"
        /\ Len(runs[k].log) > 0
        /\ \E p \in DOMAIN runs[k].before :
              /\ runs[k].before[p].kind = "file"
              /\ p \notin {runs[k].log[idx].src : idx \in 1..Len(runs[k].log)}
              /\ HasPrefix(p, Resolve(WxSource) \o sSlash)
              /\ \/ Base(ParentOf(ParentOf(p))) = sAssets
                 \/ Base(p) = sAssets
                 \/ ToLower(Ext(p)) \in ClaimedImageExts

\* C9: the output name of an exported image is <prefix>_<path2>_<3 digits>
\* followed by the extension as it is written in the source name.
WxNameKeepsExtension ==
    isWxExporter =>
        \A k \in 1..Len(runs) : \A idx \in 1..Len(runs[k].log) :
            Base(runs[k].log[idx].dst) =
                WxPrefix \o sUnderscore
                \o Base(ParentOf(ParentOf(runs[k].log[idx].src))) \o sUnderscore
                \o SprintfD(Rank(runs[k].log, idx), 3) \o Ext(runs[k].log[idx].src)

\* the pairs folder-name rename is to plan for one target directory: its
\* k-th file, directories left out, becomes <basename>_<k as 3 digits><ext>
FolderPlanOf(target, files) ==
    [k \in 1..Len(files) |->
        <<Join(target, files[k].name),
          Join(target, Base(target) \o sUnderscore \o SprintfD(k, 3) \o Ext(files[k].name))>>]
FolderPlan(f, target) ==
    FolderPlanOf(target, SelectSeq(ReadDir(f, target).entries, LAMBDA e : ~e.isDir))

RECURSIVE BatchPlan(_, _, _)
BatchPlan(f, parent, entries) ==
    IF entries = << >> THEN << >>
    ELSE (IF Head(entries).isDir /\ Enter(f, Join(parent, Head(entries).name)).ok
          THEN FolderPlan(f, Join(parent, Head(entries).name))
          ELSE << >>)
         \o BatchPlan(f, parent, Tail(entries))

\* C10: folder-name rename plans, for the k-th file of the target directory,
\* <basename>_<k as 3 digits><ext>; in batch mode it does so for every immediate
\* subdirectory of the parent that can be entered, each numbered from 1.
FoldernamePlansByFileRank ==
    \A k \in 1..Len(runs) :
        (isFoldernameRename /\ runs[k].err = "none") =>
            Pairs(runs[k].log) =
                IF directory # sEmpty THEN FolderPlan(runs[k].before, directory)
                ELSE BatchPlan(runs[k].before, parentDir,
                               ReadDir(runs[k].before, parentDir).entries)

\* a batch execute run: a subdirectory could not be entered, a later one had
\* two files renamed, a directory standing before the second
FoldernamePlansByFileRankWitness ==
    \E k \in 1..Len(runs) :
        /\ isFoldernameRename /\ parentDir # sEmpty /\ ~runs[k].dryRun
        /\ Len(runs[k].log) = 2 /\ runs[k].log[2].res = "ok"
        /\ \E p \in runs[k].listed :
              runs[k].before[p].kind = "dir" /\ ~Enter(runs[k].before, p).ok
        /\ \E q \in DOMAIN runs[k].before :
              /\ runs[k].before[q].kind = "dir"
              /\ ParentOf(q) = ParentOf(runs[k].log[2].src)
              /\ LexLess(Base(q), Base(runs[k].log[2].src))

AllOk(lg) == \A i \in 1..Len(lg) : lg[i].res = "ok"

EngineOf(fn) ==
    CASE fn = "processDirectory" -> "pattern"
      [] fn = "processDirectoryWithRule" -> "rule"
      [] fn \in {"RunBatch", "processFoldernameRename"} -> "foldername"
      [] fn \in {"processWxExporter", "wxAssets"} -> "wx"

\* the engine the flags select: a rule, when given, goes before the pattern
SelectedEngine ==
    IF isWxExporter THEN "wx"
    ELSE IF isFoldernameRename THEN "foldername"
    ELSE IF ruleType # sEmpty THEN "rule"
    ELSE "pattern"

Rejected(r) == r.err = "usage" /\ r.log = << >> /\ r.after = r.before

\* the invocation ended with an error and did nothing
Refused(r) == r.err # "none" /\ r.log = << >> /\ r.after = r.before

UnknownRule ==
    ruleType # sEmpty /\ ToLower(ruleType) \notin {sTimestamp, sSequence, sLowercase}

\* the flags make a usage error: folder-name rename with both or neither of
\* --dir and --pdir, no --dir in pattern or rule mode, an unknown rule name,
\* no pattern or a pattern that does not compile in pattern mode
UsageError ==
    IF isWxExporter THEN FALSE
    ELSE IF isFoldernameRename
         THEN (directory = sEmpty /\ parentDir = sEmpty)
              \/ (directory # sEmpty /\ parentDir # sEmpty)
         ELSE \/ directory = sEmpty
              \/ UnknownRule
              \/ ruleType = sEmpty /\ pattern = sEmpty
              \/ ruleType = sEmpty /\ ~regexpCompile(pattern).ok

NothingDone(r) ==
    r.log = << >> /\ r.listed = {} /\ r.visited = {} /\ r.after = r.before

\* C13: an invocation whose flags make a usage error ends with an error
\* report: no loop over a listing ever starts, nothing is renamed or copied
\* and the filesystem stays as it was, also with --recursive; an unknown rule
\* is reported as such unless the directory itself cannot be entered.
UsageErrorsDoNoWork ==
    /\ UsageError =>
          /\ Idle /\ fs = before
          /\ \A k \in 1..Len(runs) :
                /\ NothingDone(runs[k])
                /\ runs[k].err \in {"usage", "unknown rule", "root"}
                /\ runs[k].err = "root"
                      => (UnknownRule /\ directory # sEmpty
                          /\ ~Enter(runs[k].before, directory).ok)
    /\ \A k \in 1..Len(runs) :
          runs[k].err \in {"usage", "unknown rule"} => (UsageError /\ NothingDone(runs[k]))

\* an execute run with --recursive and an unknown rule on a directory that
\* holds a file ended with the unknown-rule error
UsageErrorsDoNoWorkWitness ==
    /\ recursive /\ UnknownRule
    /\ \E k \in 1..Len(runs) :
          /\ ~runs[k].dryRun /\ runs[k].err = "unknown rule"
          /\ \E p \in DOMAIN runs[k].before :
                ParentOf(p) = Resolve(directory) /\ runs[k].before[p].kind = "file"

\* the invocation runs the pattern engine or the timestamp/sequence/lowercase engine
IsTraversalRun ==
    IsPatternRun \/ IsRuleRun(sTimestamp) \/ IsRuleRun(sSequence) \/ IsRuleRun(sLowercase)

\* every directory is after the run what it was before it
DirectoriesKept(r) ==
    \A p \in DOMAIN r.before :
        r.before[p].kind = "dir" => (p \in DOMAIN r.after /\ r.after[p] = r.before[p])

\* the paths below a subdirectory of root hold after the run what they held before
SubtreesKept(r, root) ==
    \A p \in DOMAIN r.before \cup DOMAIN r.after :
        (HasPrefix(p, root \o sSlash) /\ ParentOf(p) # root)
            => (p \in DOMAIN r.before /\ p \in DOMAIN r.after
                /\ r.after[p] = r.before[p])

\* every subdirectory below root was reached, its parent having been listed
SubdirectoriesDescended(r, root) ==
    \A p \in DOMAIN r.before :
        (r.before[p].kind = "dir" /\ HasPrefix(p, root \o sSlash)
         /\ (ParentOf(p) = root \/ ParentOf(p) \in r.visited)
         /\ Enter(r.before, ParentOf(p)).ok)
            => (p \in r.visited
                /\ (Enter(r.before, p).ok
                       => \A q \in DOMAIN r.before : ParentOf(q) = p => q \in r.listed))

\* C14: the pattern engine and the rule engine never rename, remove or
\* replace a directory; without --recursive nothing below a subdirectory of
\* the root changes; with --recursive every subdirectory is descended into.
DirectoriesKeptAndDescended ==
    IsTraversalRun =>
        \A k \in 1..Len(runs) :
            runs[k].err = "none" =>
                /\ DirectoriesKept(runs[k])
                /\ ~recursive => SubtreesKept(runs[k], Resolve(directory))
                /\ recursive => SubdirectoriesDescended(runs[k], Resolve(directory))

FilesIn(f, dir) == {p \in DOMAIN f : p # sRoot /\ ParentOf(p) = dir /\ f[p].kind = "file"}
ContentsIn(f, dir) == {f[p].data : p \in FilesIn(f, dir)}

\* C15: after an execute run of folder-name rename or of the sequence rule in
\* which every rename succeeded, every directory holds as many files as before
\* and the content of each of its original files is still there.
RenamesLoseNoFile ==
    (isFoldernameRename \/ IsRuleRun(sSequence)) =>
        \A k \in 1..Len(runs) :
            (~runs[k].dryRun /\ runs[k].err = "none" /\ AllOk(runs[k].log)) =>
                \A d \in {ParentOf(runs[k].log[i].src) : i \in 1..Len(runs[k].log)} :
                    /\ Cardinality(FilesIn(runs[k].after, d))
                          = Cardinality(FilesIn(runs[k].before, d))
                    /\ ContentsIn(runs[k].before, d) \subseteq ContentsIn(runs[k].after, d)

Destinations(lg) == {lg[i].dst : i \in 1..Len(lg)}

\* C16: within one asset-export run no two images are given the same output
\* name; when every copy succeeded there is one output file per copied image,
\* and an output that is not itself copied again holds what its source holds.
WxOutputNamesDistinct ==
    isWxExporter =>
        /\ \A lg \in AllLogs : \A i \in 1..Len(lg) : \A j \in 1..Len(lg) :
              i # j => lg[i].dst # lg[j].dst
        /\ \A k \in 1..Len(runs) :
              (~runs[k].dryRun /\ AllOk(runs[k].log)) =>
                  /\ Cardinality(Destinations(runs[k].log)) = Len(runs[k].log)
                  /\ \A i \in 1..Len(runs[k].log) :
                        /\ Resolve(runs[k].log[i].dst) \in DOMAIN runs[k].after
                        /\ runs[k].after[Resolve(runs[k].log[i].dst)].kind = "file"
                        /\ runs[k].log[i].src \notin Destinations(runs[k].log)
                              => runs[k].after[Resolve(runs[k].log[i].dst)].data
                                   = runs[k].after[runs[k].log[i].src].data

\* an execute run copied four images without a failure: two of one path2, and
\* two of different path2 directories that got the same number and extension
WxOutputNamesDistinctWitness ==
    \E k \in 1..Len(runs) :
        /\ isWxExporter /\ ~runs[k].dryRun /\ AllOk(runs[k].log)
        /\ Len(runs[k].log) = 4
        /\ ParentOf(runs[k].log[1].src) = ParentOf(runs[k].log[2].src)
        /\ ParentOf(runs[k].log[1].src) # ParentOf(runs[k].log[3].src)
        /\ SeqDigits(runs[k].log[1].dst) = SeqDigits(runs[k].log[3].dst)
        /\ Ext(runs[k].log[1].dst) = Ext(runs[k].log[3].dst)

====
